---- MODULE Spec2Model ----
(***************************************************************************)
(* A small-step model of the tinypy statement evaluator                    *)
(* (src/tinypy/AST/stmt.py).  Python's call stack is the variable `stack`  *)
(* (one frame per active eval()/container() activation), the value handed  *)
(* from a callee to its caller is the variable `ctl`.  The read loop of the *)
(* interactive shell (src/tinypy/shell/shell.py) is a second specification *)
(* over its own variables.                                                 *)
(***************************************************************************)
EXTENDS Integers, Sequences, FiniteSets, TLC

VARIABLES
    prog,              \* the top-level statement list handed to the evaluator
    Namespaces,        \* heap of runtime.Memory.Namespace objects, by index
    Closures,          \* heap of `container` closures, one per FunctionDef.eval
    CurrentNamespace,  \* runtime.Memory.CurrentNamespace (an index of Namespaces)
    stack,             \* activation frames, innermost last
    ctl,               \* what the machine does next / the value being returned
    last,              \* history: the frame on top and ctl before the latest step
    single_input,      \* InteractiveShell.single_input: the lines of the pending input
    readMore,          \* InteractiveShell.readMore: the continuation flag
    parsed             \* history: how the shell's latest parse ended

shellVars == <<single_input, readMore, parsed>>

vars == <<prog, Namespaces, Closures, CurrentNamespace, stack, ctl, last, shellVars>>

-----------------------------------------------------------------------------
(* Bounds *)

\* number of successive top-level calls of the counter function
NumCalls == 3

\* largest integer literal passed as an argument by the generated programs
MaxArg == 2

\* largest number of parameters, and of arguments, of the arity programs
MaxArity == 2

\* largest number of evaluations of the test of a counting loop
MaxTests == 3

\* largest number of lines the shell's pending input grows to
MaxPending == 4

-----------------------------------------------------------------------------
(* AST nodes *)

Num(n) == [k |-> "Num", n |-> n]

BoolLit(b) == [k |-> "Bool", b |-> b]

\* Name node in load context
Name(id) == [k |-> "Name", id |-> id, ctx |-> "Load"]

\* Name node in store context
NameStore(id) == [k |-> "Name", id |-> id, ctx |-> "Store"]

BinOp(op, l, r) == [k |-> "BinOp", op |-> op, left |-> l, right |-> r]

CallExpr(f, as) == [k |-> "Call", func |-> f, args |-> as]

\* Python None standing where an expression node may be absent
NoExpr == [k |-> "NoExpr"]

AssignStmt(target, value) == [k |-> "Assign", target |-> NameStore(target), value |-> value]

\* AugAssignStmt.opTable: the binary operator of each augmented assignment
opTable ==
    [op \in {"+=", "-=", "*=", "/=", "%=", "&=", "|=", "^=", "<<=", ">>="} |->
        IF op = "+=" THEN "+"
        ELSE IF op = "-=" THEN "-"
        ELSE IF op = "*=" THEN "*"
        ELSE IF op = "/=" THEN "/"
        ELSE IF op = "%=" THEN "%"
        ELSE IF op = "&=" THEN "&"
        ELSE IF op = "|=" THEN "|"
        ELSE IF op = "^=" THEN "^"
        ELSE IF op = "<<=" THEN "<<"
        ELSE ">>"]

\* variant: the operands change places
AugAssignStmt_Swapped(name, value, op) ==
    LET nameNodeLoad == Name(name)
        nameNodeStore == NameStore(name)
        binOp == BinOp(opTable[op], value, nameNodeLoad)
    IN  [k |-> "Assign", target |-> nameNodeStore, value |-> binOp]

\* AugAssignStmt.__init__: an AssignStmt whose value is the binary operation on
\* the loaded name and the given value
AugAssignStmt(name, value, op) ==
    LET nameNodeLoad == Name(name)
        nameNodeStore == NameStore(name)
        binOp == BinOp(opTable[op], nameNodeLoad, value)
    IN  [k |-> "Assign", target |-> nameNodeStore, value |-> binOp]

FunctionDef(name, args, body) == [k |-> "FunctionDef", name |-> name, args |-> args, body |-> body]

IfStmt(test, body, orelse) == [k |-> "If", test |-> test, body |-> body, orelse |-> orelse]

WhileStmt(test, body) == [k |-> "While", test |-> test, body |-> body]

ReturnStmt(expr) == [k |-> "Return", expr |-> expr]

PassStmt == [k |-> "Pass"]

ContinueStmt == [k |-> "Continue"]

BreakStmt == [k |-> "Break"]

-----------------------------------------------------------------------------
(* Values and statement results *)

IntV(n) == [t |-> "int", v |-> n]

BoolV(b) == [t |-> "bool", v |-> IF b THEN 1 ELSE 0]

NoneV == [t |-> "none", v |-> 0]

\* a `container` closure, by its index in Closures
FnV(c) == [t |-> "fn", v |-> c]

\* statement result None (AssignStmt.eval, FunctionDef.eval)
NoneRes == [kind |-> "None", type |-> "-", toEval |-> NoExpr, elems |-> <<>>]

\* statement result list (IfStmt.eval, WhileStmt.eval)
ListRes(es) == [kind |-> "List", type |-> "-", toEval |-> NoExpr, elems |-> es]

ControlFlowMark(type, toEval) == [kind |-> "Mark", type |-> type, toEval |-> toEval, elems |-> <<>>]

\* Python's `v == True`: True for the boolean True and for the number 1
\* variant: the truth value of the test decides
EqTrue_Truthy(val) ==
    IF val.t \in {"int", "bool", "float"} THEN val.v # 0
    ELSE val.t # "none"

EqTrue(val) ==
    IF val.t \in {"int", "bool"} THEN val.v = 1
    ELSE IF val.t = "float" THEN val.v = val.d
    ELSE FALSE

\* isinstance(res, ControlFlowMark)
IsMark(res) == res.kind = "Mark"

-----------------------------------------------------------------------------
(* Namespace *)

EmptyBindings == [n \in {} |-> NoneV]

NewNamespace(outerScope) == [bindings |-> EmptyBindings, outer |-> outerScope]

\* Namespace.set: insert or overwrite in the namespace's own bindings
SetBinding(nss, ns, name, value) ==
    [nss EXCEPT ![ns].bindings =
        [n \in (DOMAIN nss[ns].bindings) \cup {name} |->
            IF n = name THEN value ELSE nss[ns].bindings[n]]]

RECURSIVE Bound(_, _, _)
\* does the chain starting at ns hold the name
Bound(nss, ns, name) ==
    IF ns = 0 THEN FALSE
    ELSE IF name \in DOMAIN nss[ns].bindings THEN TRUE
    ELSE Bound(nss, nss[ns].outer, name)

RECURSIVE Lookup(_, _, _)
\* Namespace.get: own bindings first, then the outer scope
Lookup(nss, ns, name) ==
    IF name \in DOMAIN nss[ns].bindings THEN nss[ns].bindings[name]
    ELSE Lookup(nss, nss[ns].outer, name)

-----------------------------------------------------------------------------
(* Stack helpers *)

Top == stack[Len(stack)]

Pop(s) == SubSeq(s, 1, Len(s) - 1)

Push(s, f) == Append(s, f)

ReplaceTop(s, f) == [s EXCEPT ![Len(s)] = f]

\* closure whose body is being executed (0 at the top level)
Innermost(s) ==
    LET js == {j \in 1..Len(s) : s[j].k = "Container"}
    IN  IF js = {} THEN 0
        ELSE s[CHOOSE j \in js : \A i \in js : i <= j].clo

-----------------------------------------------------------------------------
(* ctl *)

\* stmt.eval() is about to be called
DoStmt(node) == [m |-> "stmt", node |-> node]

\* expr.eval() is about to be called
DoExpr(node) == [m |-> "expr", node |-> node]

\* the frame on top takes the next step of its `for` loop
DoNext == [m |-> "next"]

\* a statement's eval() returned res to the frame on top
RetStmt(res) == [m |-> "res", res |-> res]

\* an expression's eval() returned val to the frame on top
RetVal(val) == [m |-> "val", val |-> val]

\* an exception is propagating
Raise(err, why) == [m |-> "raise", err |-> err, why |-> why]

\* every step of the evaluator records the frame on top and ctl it started from;
\* the shell is not involved
Step ==
    /\ last' = [top |-> Top, ctl |-> ctl]
    /\ UNCHANGED shellVars

-----------------------------------------------------------------------------
(* AssignStmt *)

\* AssignStmt.eval, first half: the target yields its name, the value is evaluated
EvalAssign ==
    /\ ctl.m = "stmt"
    /\ Step
    /\ ctl.node.k = "Assign"
    /\ stack' = Push(stack, [k |-> "Assign", lValue |-> ctl.node.target.id])
    /\ ctl' = DoExpr(ctl.node.value)
    /\ UNCHANGED <<prog, Namespaces, Closures, CurrentNamespace>>

\* variant: every assignment writes into the global namespace
AssignSet_WriteGlobal ==
    /\ ctl.m = "val"
    /\ Step
    /\ Top.k = "Assign"
    /\ Namespaces' = SetBinding(Namespaces, 1, Top.lValue, ctl.val)
    /\ stack' = Pop(stack)
    /\ ctl' = RetStmt(NoneRes)
    /\ UNCHANGED <<prog, Closures, CurrentNamespace>>

\* AssignStmt.eval, second half: write into the namespace that is current now
AssignSet ==
    /\ ctl.m = "val"
    /\ Step
    /\ Top.k = "Assign"
    /\ Namespaces' = SetBinding(Namespaces, CurrentNamespace, Top.lValue, ctl.val)
    /\ stack' = Pop(stack)
    /\ ctl' = RetStmt(NoneRes)
    /\ UNCHANGED <<prog, Closures, CurrentNamespace>>

-----------------------------------------------------------------------------
(* Control flow statements *)

\* ReturnStmt.eval, PassStmt.eval, ContinueStmt.eval, BreakStmt.eval
MarkOf(node) ==
    IF node.k = "Return" THEN ControlFlowMark("Return", node.expr)
    ELSE ControlFlowMark(node.k, NoExpr)

EvalControlFlow ==
    /\ ctl.m = "stmt"
    /\ Step
    /\ ctl.node.k \in {"Return", "Pass", "Continue", "Break"}
    /\ ctl' = RetStmt(MarkOf(ctl.node))
    /\ UNCHANGED <<prog, Namespaces, Closures, CurrentNamespace, stack>>

-----------------------------------------------------------------------------
(* FunctionDef *)

\* variant: a function is defined in the namespace around the active one
getNamespace_Outer ==
    IF Namespaces[CurrentNamespace].outer = 0 THEN CurrentNamespace
    ELSE Namespaces[CurrentNamespace].outer

\* FunctionDef.getNamespace
getNamespace == CurrentNamespace

\* FunctionDef.eval: one new namespace, one closure, bound in the current namespace
EvalFunctionDef ==
    /\ ctl.m = "stmt"
    /\ Step
    /\ ctl.node.k = "FunctionDef"
    /\ LET previousNamespace == getNamespace
           namespace == Len(Namespaces) + 1
           container == [def |-> ctl.node,
                         namespace |-> namespace,
                         previousNamespace |-> previousNamespace,
                         \* history: the closure whose body holds this definition
                         definer |-> Innermost(stack),
                         \* history: how many times the closure has been called
                         calls |-> 0]
       IN  /\ Closures' = Append(Closures, container)
           /\ Namespaces' = SetBinding(Append(Namespaces, NewNamespace(previousNamespace)),
                                       previousNamespace, ctl.node.name,
                                       FnV(Len(Closures) + 1))
    /\ ctl' = RetStmt(NoneRes)
    /\ UNCHANGED <<prog, CurrentNamespace, stack>>

-----------------------------------------------------------------------------
(* container: a call of a function *)

\* len(args) != len(self.args)
ArityMismatch(c, args) == Len(args) # Len(Closures[c].def.args)

RECURSIVE ZipSet(_, _, _, _, _)
\* for pair in zip(self.args, args): namespace.set(pair[0], pair[1])
ZipSet(nss, ns, params, args, j) ==
    IF j > Len(params) \/ j > Len(args) THEN nss
    ELSE ZipSet(SetBinding(nss, ns, params[j], args[j]), ns, params, args, j + 1)

\* variant: every call starts from a fresh, empty namespace
ContainerBind_FreshNamespace(nss, c, args) ==
    IF ArityMismatch(c, args) THEN nss
    ELSE ZipSet([nss EXCEPT ![Closures[c].namespace].bindings = EmptyBindings],
                Closures[c].namespace, Closures[c].def.args, args, 1)

\* variant: the parameters are bound before the arity check
ContainerBind_BindFirst(nss, c, args) ==
    ZipSet(nss, Closures[c].namespace, Closures[c].def.args, args, 1)

\* the arity check, then the parameter binding
ContainerBind(nss, c, args) ==
    IF ArityMismatch(c, args) THEN nss
    ELSE ZipSet(nss, Closures[c].namespace, Closures[c].def.args, args, 1)

\* the namespace a call installs
InstalledNamespace(c) == Closures[c].namespace

\* the namespace a completed call puts back
RestoredNamespace(c) == Closures[c].previousNamespace

\* container, up to the start of the loop over the body
ContainerEnter ==
    /\ ctl.m = "call"
    /\ Step
    /\ LET c == ctl.clo
           frame == [k |-> "Container", clo |-> c, i |-> 0, phase |-> "body",
                     args |-> ctl.args,
                     \* history: the pointer and its bindings just before the call
                     saved |-> CurrentNamespace,
                     savedBindings |-> Namespaces[CurrentNamespace].bindings]
       IN  /\ CurrentNamespace' = InstalledNamespace(c)
           /\ stack' = ReplaceTop(stack, frame)
           /\ Namespaces' = ContainerBind(Namespaces, c, ctl.args)
           /\ ctl' = IF ArityMismatch(c, ctl.args)
                     THEN Raise("TypeError", "arity")
                     ELSE DoNext
           /\ Closures' = [Closures EXCEPT ![c].calls = @ + 1]
    /\ UNCHANGED prog

\* container: restore the namespace and return returnValue
ContainerFinish(returnValue) ==
    /\ CurrentNamespace' = RestoredNamespace(Top.clo)
    /\ stack' = Pop(stack)
    /\ ctl' = RetVal(returnValue)
    /\ UNCHANGED <<prog, Namespaces, Closures>>

\* container: the body loop takes its next statement, or ends
ContainerNext ==
    /\ ctl.m = "next"
    /\ Step
    /\ Top.k = "Container"
    /\ LET body == Closures[Top.clo].def.body
       IN  IF Top.i < Len(body)
           THEN /\ stack' = ReplaceTop(stack, [Top EXCEPT !.i = Top.i + 1])
                /\ ctl' = DoStmt(body[Top.i + 1])
                /\ UNCHANGED <<prog, Namespaces, Closures, CurrentNamespace>>
           ELSE ContainerFinish(NoneV)

\* variant: a Break ends the call like a Return without an expression
ContainerReaction_BreakReturns(res) ==
    IF IsMark(res) /\ res.type \in {"Return", "Break"} THEN "return" ELSE "drop"

\* variant: no result ends the loop over the body
ContainerReaction_NeverReturns(res) == "drop"

\* what container does with a statement's result
ContainerReaction(res) ==
    IF IsMark(res) /\ res.type = "Return" THEN "return" ELSE "drop"

\* container: a body statement returned
ContainerStmtResult ==
    /\ ctl.m = "res"
    /\ Step
    /\ Top.k = "Container"
    /\ IF ContainerReaction(ctl.res) = "return"
       THEN IF ctl.res.toEval # NoExpr
            THEN /\ stack' = ReplaceTop(stack, [Top EXCEPT !.phase = "return"])
                 /\ ctl' = DoExpr(ctl.res.toEval)
                 /\ UNCHANGED <<prog, Namespaces, Closures, CurrentNamespace>>
            ELSE ContainerFinish(NoneV)
       ELSE /\ ctl' = DoNext
            /\ UNCHANGED <<prog, Namespaces, Closures, CurrentNamespace, stack>>

\* container: the Return's expression has been evaluated
ContainerReturnValue ==
    /\ ctl.m = "val"
    /\ Step
    /\ Top.k = "Container"
    /\ Top.phase = "return"
    /\ ContainerFinish(ctl.val)

-----------------------------------------------------------------------------
(* IfStmt and WhileStmt *)

\* result += evalResult for a list, result.append(evalResult) otherwise
Accumulate(result, evalResult) ==
    IF evalResult.kind = "List" THEN result \o evalResult.elems
    ELSE Append(result, evalResult)

\* IfStmt.eval: the test is evaluated first
EvalIf ==
    /\ ctl.m = "stmt"
    /\ Step
    /\ ctl.node.k = "If"
    /\ stack' = Push(stack, [k |-> "If", node |-> ctl.node, phase |-> "test",
                             stmts |-> <<>>, i |-> 0, result |-> <<>>])
    /\ ctl' = DoExpr(ctl.node.test)
    /\ UNCHANGED <<prog, Namespaces, Closures, CurrentNamespace>>

\* self.body if (test == True) else self.orelse
IfBranch(node, test) == IF EqTrue(test) THEN node.body ELSE node.orelse

\* IfStmt.eval: the test's value selects the branch
IfTest ==
    /\ ctl.m = "val"
    /\ Step
    /\ Top.k = "If"
    /\ Top.phase = "test"
    /\ stack' = ReplaceTop(stack, [Top EXCEPT !.phase = "iter",
                                              !.stmts = IfBranch(Top.node, ctl.val)])
    /\ ctl' = DoNext
    /\ UNCHANGED <<prog, Namespaces, Closures, CurrentNamespace>>

\* IfStmt.eval: the loop over the branch takes its next statement, or ends
IfNext ==
    /\ ctl.m = "next"
    /\ Step
    /\ Top.k = "If"
    /\ IF Top.i < Len(Top.stmts)
       THEN /\ stack' = ReplaceTop(stack, [Top EXCEPT !.i = Top.i + 1])
            /\ ctl' = DoStmt(Top.stmts[Top.i + 1])
       ELSE /\ stack' = Pop(stack)
            /\ ctl' = RetStmt(ListRes(Top.result))
    /\ UNCHANGED <<prog, Namespaces, Closures, CurrentNamespace>>

\* variant: only a Return leaves the If
IfPropagates_ReturnOnly(evalResult) == IsMark(evalResult) /\ evalResult.type = "Return"

\* does the If hand the result straight to its caller
IfPropagates(evalResult) == IsMark(evalResult) /\ evalResult.type # "Pass"

\* IfStmt.eval: a statement of the branch returned
IfStmtResult ==
    /\ ctl.m = "res"
    /\ Step
    /\ Top.k = "If"
    /\ IF IfPropagates(ctl.res)
       THEN /\ stack' = Pop(stack)
            /\ ctl' = RetStmt(ctl.res)
       ELSE /\ stack' = ReplaceTop(stack,
                            [Top EXCEPT !.result = Accumulate(Top.result, ctl.res)])
            /\ ctl' = DoNext
    /\ UNCHANGED <<prog, Namespaces, Closures, CurrentNamespace>>

\* WhileStmt.eval: result = [], then the test
EvalWhile ==
    /\ ctl.m = "stmt"
    /\ Step
    /\ ctl.node.k = "While"
    /\ stack' = Push(stack, [k |-> "While", node |-> ctl.node, phase |-> "test",
                             i |-> 0, result |-> <<>>])
    /\ ctl' = DoExpr(ctl.node.test)
    /\ UNCHANGED <<prog, Namespaces, Closures, CurrentNamespace>>

\* WhileStmt.eval: the test's value starts an iteration or ends the loop
WhileTest ==
    /\ ctl.m = "val"
    /\ Step
    /\ Top.k = "While"
    /\ Top.phase = "test"
    /\ IF EqTrue(ctl.val)
       THEN /\ stack' = ReplaceTop(stack, [Top EXCEPT !.phase = "iter", !.i = 0])
            /\ ctl' = DoNext
       ELSE /\ stack' = Pop(stack)
            /\ ctl' = RetStmt(ListRes(Top.result))
    /\ UNCHANGED <<prog, Namespaces, Closures, CurrentNamespace>>

\* WhileStmt.eval: the inner loop takes its next statement, or the test is evaluated again
WhileNext ==
    /\ ctl.m = "next"
    /\ Step
    /\ Top.k = "While"
    /\ IF Top.i < Len(Top.node.body)
       THEN /\ stack' = ReplaceTop(stack, [Top EXCEPT !.i = Top.i + 1])
            /\ ctl' = DoStmt(Top.node.body[Top.i + 1])
       ELSE /\ stack' = ReplaceTop(stack, [Top EXCEPT !.phase = "test"])
            /\ ctl' = DoExpr(Top.node.test)
    /\ UNCHANGED <<prog, Namespaces, Closures, CurrentNamespace>>

\* variant: a Break is handed to the caller like a Return
WhileReaction_BreakEscapes(evalResult) ==
    IF ~IsMark(evalResult) THEN "append"
    ELSE IF evalResult.type = "Continue" THEN "continue"
    ELSE IF evalResult.type = "Pass" THEN "append"
    ELSE "return"

\* variant: a Break only ends the iteration, like a Continue
WhileReaction_BreakContinues(evalResult) ==
    IF ~IsMark(evalResult) THEN "append"
    ELSE IF evalResult.type \in {"Break", "Continue"} THEN "continue"
    ELSE IF evalResult.type = "Return" THEN "return"
    ELSE "append"

\* variant: a Return is treated like a Pass
WhileReaction_ReturnIgnored(evalResult) ==
    IF ~IsMark(evalResult) THEN "append"
    ELSE IF evalResult.type = "Break" THEN "break"
    ELSE IF evalResult.type = "Continue" THEN "continue"
    ELSE "append"

\* what the While does with a body statement's result
WhileReaction(evalResult) ==
    IF ~IsMark(evalResult) THEN "append"
    ELSE IF evalResult.type = "Break" THEN "break"
    ELSE IF evalResult.type = "Continue" THEN "continue"
    ELSE IF evalResult.type = "Pass" THEN "append"
    ELSE IF evalResult.type = "Return" THEN "return"
    ELSE "append"

\* WhileStmt.eval: a body statement returned
WhileStmtResult ==
    /\ ctl.m = "res"
    /\ Step
    /\ Top.k = "While"
    /\ LET r == WhileReaction(ctl.res)
       IN  IF r = "break"
           THEN /\ stack' = Pop(stack)
                /\ ctl' = RetStmt(ListRes(Top.result))
           ELSE IF r = "continue"
           THEN /\ stack' = ReplaceTop(stack, [Top EXCEPT !.phase = "test"])
                /\ ctl' = DoExpr(Top.node.test)
           ELSE IF r = "return"
           THEN /\ stack' = Pop(stack)
                /\ ctl' = RetStmt(ctl.res)
           ELSE /\ stack' = ReplaceTop(stack,
                                [Top EXCEPT !.result = Accumulate(Top.result, ctl.res)])
                /\ ctl' = DoNext
    /\ UNCHANGED <<prog, Namespaces, Closures, CurrentNamespace>>

-----------------------------------------------------------------------------
(* Expressions *)

\* a literal evaluates to its value
EvalLiteral ==
    /\ ctl.m = "expr"
    /\ Step
    /\ ctl.node.k \in {"Num", "Bool"}
    /\ ctl' = RetVal(IF ctl.node.k = "Num" THEN IntV(ctl.node.n) ELSE BoolV(ctl.node.b))
    /\ UNCHANGED <<prog, Namespaces, Closures, CurrentNamespace, stack>>

\* a Name in load context resolves through the current namespace
EvalName ==
    /\ ctl.m = "expr"
    /\ Step
    /\ ctl.node.k = "Name"
    /\ ctl' = IF Bound(Namespaces, CurrentNamespace, ctl.node.id)
              THEN RetVal(Lookup(Namespaces, CurrentNamespace, ctl.node.id))
              ELSE Raise("NameError", ctl.node.id)
    /\ UNCHANGED <<prog, Namespaces, Closures, CurrentNamespace, stack>>

\* a binary operator evaluates its left operand first
EvalBinOp ==
    /\ ctl.m = "expr"
    /\ Step
    /\ ctl.node.k = "BinOp"
    /\ stack' = Push(stack, [k |-> "BinOp", node |-> ctl.node, phase |-> "left",
                             left |-> NoneV])
    /\ ctl' = DoExpr(ctl.node.left)
    /\ UNCHANGED <<prog, Namespaces, Closures, CurrentNamespace>>

\* then its right operand
BinOpLeft ==
    /\ ctl.m = "val"
    /\ Step
    /\ Top.k = "BinOp"
    /\ Top.phase = "left"
    /\ stack' = ReplaceTop(stack, [Top EXCEPT !.phase = "right", !.left = ctl.val])
    /\ ctl' = DoExpr(Top.node.right)
    /\ UNCHANGED <<prog, Namespaces, Closures, CurrentNamespace>>

IsNumber(val) == val.t \in {"int", "bool", "float"}

Abs(n) == IF n < 0 THEN -n ELSE n

RECURSIVE GCD(_, _)
GCD(a, b) == IF b = 0 THEN a ELSE GCD(b, a % b)

\* the quotient n / d, kept exact and in lowest terms with a positive denominator
FloatV(n, d) ==
    LET s == IF d < 0 THEN -1 ELSE 1
        g == GCD(Abs(n), Abs(d))
    IN  [t |-> "float", v |-> (s * n) \div g, d |-> (s * d) \div g]

\* denominator of a number
DenOf(val) == IF val.t = "float" THEN val.d ELSE 1

\* a % b with the sign of b
PyMod(a, b) == IF b > 0 THEN a % b ELSE -((-a) % (-b))

RECURSIVE Pow2(_)
Pow2(n) == IF n = 0 THEN 1 ELSE 2 * Pow2(n - 1)

\* floor(a / b) for b > 0
FloorDiv(a, b) == (a - (a % b)) \div b

\* one bit of a bitwise operation
Bit(op, x, y) ==
    IF op = "&" THEN x * y
    ELSE IF op = "|" THEN x + y - x * y
    ELSE (x + y) % 2

\* bitwise operation on integers in two's complement of unbounded width
RECURSIVE BitOp(_, _, _)
BitOp(op, a, b) ==
    IF a \in {0, -1} /\ b \in {0, -1}
    THEN -Bit(op, a % 2, b % 2)
    ELSE 2 * BitOp(op, FloorDiv(a, 2), FloorDiv(b, 2)) + Bit(op, a % 2, b % 2)

\* the error the operation on two numbers raises, "none" if it has a value
ArithError(op, l, r) ==
    IF op \in {"&", "|", "^", "<<", ">>"} /\ "float" \in {l.t, r.t} THEN "TypeError"
    ELSE IF op \in {"/", "%"} /\ r.v = 0 THEN "ZeroDivisionError"
    ELSE IF op \in {"<<", ">>"} /\ r.v < 0 THEN "ValueError"
    ELSE "none"

\* the operation on two numbers
Arith(op, l, r) ==
    LET a == l.v * DenOf(r)
        b == r.v * DenOf(l)
        d == DenOf(l) * DenOf(r)
        isFloat == "float" \in {l.t, r.t}
        Number(n) == IF isFloat THEN FloatV(n, d) ELSE IntV(n)
        Bits(n) == IF l.t = "bool" /\ r.t = "bool" THEN BoolV(n = 1) ELSE IntV(n)
    IN  IF op = "+" THEN Number(a + b)
        ELSE IF op = "-" THEN Number(a - b)
        ELSE IF op = "*" THEN IF isFloat THEN FloatV(l.v * r.v, d) ELSE IntV(l.v * r.v)
        ELSE IF op = "/" THEN FloatV(a, b)
        ELSE IF op = "%" THEN Number(PyMod(a, b))
        ELSE IF op \in {"&", "|", "^"} THEN Bits(BitOp(op, l.v, r.v))
        ELSE IF op = "<<" THEN IntV(l.v * Pow2(r.v))
        ELSE IF op = ">>" THEN IntV(FloorDiv(l.v, Pow2(r.v)))
        ELSE BoolV(a < b)

\* and applies the operation
BinOpRight ==
    /\ ctl.m = "val"
    /\ Step
    /\ Top.k = "BinOp"
    /\ Top.phase = "right"
    /\ stack' = Pop(stack)
    /\ ctl' = IF ~(IsNumber(Top.left) /\ IsNumber(ctl.val))
              THEN Raise("TypeError", "operand")
              ELSE IF ArithError(Top.node.op, Top.left, ctl.val) # "none"
              THEN Raise(ArithError(Top.node.op, Top.left, ctl.val), "operand")
              ELSE RetVal(Arith(Top.node.op, Top.left, ctl.val))
    /\ UNCHANGED <<prog, Namespaces, Closures, CurrentNamespace>>

\* a call resolves the function's name, then evaluates the arguments in order
EvalCall ==
    /\ ctl.m = "expr"
    /\ Step
    /\ ctl.node.k = "Call"
    /\ IF Bound(Namespaces, CurrentNamespace, ctl.node.func)
       THEN /\ stack' = Push(stack, [k |-> "Call", node |-> ctl.node,
                                     fn |-> Lookup(Namespaces, CurrentNamespace, ctl.node.func),
                                     args |-> <<>>])
            /\ ctl' = DoNext
       ELSE /\ stack' = stack
            /\ ctl' = Raise("NameError", ctl.node.func)
    /\ UNCHANGED <<prog, Namespaces, Closures, CurrentNamespace>>

\* the next argument is evaluated, or the callable is called
CallNext ==
    /\ ctl.m = "next"
    /\ Step
    /\ Top.k = "Call"
    /\ ctl' = IF Len(Top.args) < Len(Top.node.args)
              THEN DoExpr(Top.node.args[Len(Top.args) + 1])
              ELSE IF Top.fn.t = "fn"
              THEN [m |-> "call", clo |-> Top.fn.v, args |-> Top.args]
              ELSE Raise("TypeError", "not callable")
    /\ UNCHANGED <<prog, Namespaces, Closures, CurrentNamespace, stack>>

\* an argument has been evaluated
CallArg ==
    /\ ctl.m = "val"
    /\ Step
    /\ Top.k = "Call"
    /\ stack' = ReplaceTop(stack, [Top EXCEPT !.args = Append(Top.args, ctl.val)])
    /\ ctl' = DoNext
    /\ UNCHANGED <<prog, Namespaces, Closures, CurrentNamespace>>

-----------------------------------------------------------------------------
(* Exceptions and the top level *)

\* an exception leaves the activation on top; nothing catches it
Unwind ==
    /\ ctl.m = "raise"
    /\ Step
    /\ IF Top.k = "Top"
       THEN /\ stack' = stack
            /\ ctl' = [m |-> "error", err |-> ctl.err, why |-> ctl.why]
       ELSE /\ stack' = Pop(stack)
            /\ ctl' = ctl
    /\ UNCHANGED <<prog, Namespaces, Closures, CurrentNamespace>>

\* the program's statements are evaluated in order
TopNext ==
    /\ ctl.m = "next"
    /\ Step
    /\ Top.k = "Top"
    /\ IF Top.i < Len(prog)
       THEN /\ stack' = ReplaceTop(stack, [Top EXCEPT !.i = Top.i + 1])
            /\ ctl' = DoStmt(prog[Top.i + 1])
       ELSE /\ stack' = stack
            /\ ctl' = [m |-> "halt"]
    /\ UNCHANGED <<prog, Namespaces, Closures, CurrentNamespace>>

\* whatever a top-level statement returns is discarded
TopStmtResult ==
    /\ ctl.m = "res"
    /\ Step
    /\ Top.k = "Top"
    /\ ctl' = DoNext
    /\ UNCHANGED <<prog, Namespaces, Closures, CurrentNamespace, stack>>

-----------------------------------------------------------------------------
(* Programs the evaluator is run on *)

Lt(l, r) == BinOp("<", l, r)

Plus(l, r) == BinOp("+", l, r)

Minus(l, r) == BinOp("-", l, r)

\* def f(): return 1
DefF == FunctionDef("f", <<>>, <<ReturnStmt(Num(1))>>)

\* c = c + 1
IncC == AssignStmt("c", Plus(Name("c"), Num(1)))

\* statements without a body of their own
SimpleStmts ==
    { AssignStmt("x", Name("a")),
      AssignStmt("t", CallExpr("f", <<>>)),
      AssignStmt("x", Plus(CallExpr("f", <<>>), Name("a"))),
      AssignStmt("x", Name("q")),
      PassStmt, BreakStmt, ContinueStmt,
      ReturnStmt(Name("a")), ReturnStmt(NoExpr) }

\* if a: s1; s2 else: s2
IfStmts == { IfStmt(Name("a"), <<s1, s2>>, <<s2>>) : s1, s2 \in SimpleStmts }

\* while c < 2: c = c + 1; s1; s2
WhileStmts == { WhileStmt(Lt(Name("c"), Num(2)), <<IncC, s1, s2>>) : s1, s2 \in SimpleStmts }

\* while c < 2: c = c + 1; if c < 2: s1 else: s2; x = 9
WhileIfStmts ==
    { WhileStmt(Lt(Name("c"), Num(2)),
                <<IncC, IfStmt(Lt(Name("c"), Num(2)), <<s1>>, <<s2>>), AssignStmt("x", Num(9))>>)
        : s1, s2 \in SimpleStmts }

\* while c < 2: c = c + 1; while True: s1; break
NestedWhileStmts ==
    { WhileStmt(Lt(Name("c"), Num(2)),
                <<IncC, WhileStmt(BoolLit(TRUE), <<s1, BreakStmt>>), PassStmt>>)
        : s1 \in SimpleStmts }

BodyStmts == SimpleStmts \cup IfStmts \cup WhileStmts \cup WhileIfStmts \cup NestedWhileStmts

\* def g(a): s; y = 3; return y
DefG(s) == FunctionDef("g", <<"a">>, <<s, AssignStmt("y", Num(3)), ReturnStmt(Name("y"))>>)

\* def h(b): u = g(b); return u
DefH == FunctionDef("h", <<"b">>,
                    <<AssignStmt("u", CallExpr("g", <<Name("b")>>)), ReturnStmt(Name("u"))>>)

Prelude == <<AssignStmt("x", Num(0)), AssignStmt("c", Num(0)), DefF>>

\* g called from the top level, and g called from the body of h
BodyPrograms ==
    { Prelude \o <<DefG(s), AssignStmt("r", CallExpr("g", <<Num(v)>>))>>
        : s \in BodyStmts, v \in 0..MaxArg }
    \cup
    { Prelude \o <<DefG(s), DefH, AssignStmt("r", CallExpr("h", <<Num(v)>>))>>
        : s \in BodyStmts, v \in 0..MaxArg }

\* def counter(): n = n + 1; return n
DefCounter == FunctionDef("counter", <<>>,
                          <<AssignStmt("n", Plus(Name("n"), Num(1))), ReturnStmt(Name("n"))>>)

\* def keep(a): return a
DefKeep == FunctionDef("keep", <<"a">>, <<ReturnStmt(Name("a"))>>)

\* r = counter(); s = keep(j), for j = 1..k
CounterCalls(k) ==
    [j \in 1..(2 * k) |->
        IF j % 2 = 1 THEN AssignStmt("r", CallExpr("counter", <<>>))
        ELSE AssignStmt("s", CallExpr("keep", <<Num(j \div 2)>>))]

CounterPrograms ==
    { <<AssignStmt("n", Num(0)), DefCounter, DefKeep>> \o CounterCalls(k) : k \in 1..NumCalls }

\* def seeded(z): if z: n = 0; return 0 end; n = n + 1; return n
DefSeeded ==
    FunctionDef("seeded", <<"z">>,
                <<IfStmt(Name("z"), <<AssignStmt("n", Num(0)), ReturnStmt(Num(0))>>, <<>>),
                  AssignStmt("n", Plus(Name("n"), Num(1))), ReturnStmt(Name("n"))>>)

\* the first call seeds n = 0 in the function's own namespace, k calls follow
SeededPrograms ==
    { <<DefSeeded, AssignStmt("r", CallExpr("seeded", <<Num(1)>>))>>
          \o [j \in 1..k |-> AssignStmt("r", CallExpr("seeded", <<Num(0)>>))] : k \in 1..NumCalls }

ParamNames == <<"a", "b", "d", "e">>

\* def fn(<N parameters>): x = 5; return x
DefFn(N) == FunctionDef("fn", SubSeq(ParamNames, 1, N),
                        <<AssignStmt("x", Num(5)), ReturnStmt(Name("x"))>>)

\* fn(11, 12, ...) with M arguments
CallFn(M) == CallExpr("fn", [j \in 1..M |-> Num(10 + j)])

\* def wrap(): u = fn(...); return u
DefWrap(M) == FunctionDef("wrap", <<>>, <<AssignStmt("u", CallFn(M)), ReturnStmt(Name("u"))>>)

\* a function of N parameters called with M arguments: at once, after a call
\* with N arguments, and from the body of another function
ArityPrograms ==
    { <<DefFn(N), AssignStmt("r", CallFn(M))>> : N, M \in 0..MaxArity }
    \cup
    { <<DefFn(N), AssignStmt("r", CallExpr("fn", [j \in 1..N |-> Num(j)])),
        AssignStmt("r", CallFn(M))>> : N, M \in 0..MaxArity }
    \cup
    { <<DefFn(N), DefWrap(M), AssignStmt("r", CallExpr("wrap", <<>>))>> : N, M \in 0..MaxArity }

\* def inner(): return y
DefInner == FunctionDef("inner", <<>>, <<ReturnStmt(Name("y"))>>)

\* def outer(): <pre>; y = 5; def inner(): return y; return inner
DefOuter(pre) ==
    FunctionDef("outer", <<>>,
                pre \o <<AssignStmt("y", Num(5)), DefInner, ReturnStmt(Name("inner"))>>)

\* the inner function is called after the call of outer has returned
ClosurePrograms ==
    { <<DefF, DefOuter(pre), AssignStmt("k", CallExpr("outer", <<>>)),
        AssignStmt("z", CallExpr("k", <<>>))>>
        : pre \in {<<>>, <<PassStmt>>, <<AssignStmt("t", CallExpr("f", <<>>))>>} }

\* def rec(a): if a: t = rec(a - 1); return a
DefRec ==
    FunctionDef("rec", <<"a">>,
                <<IfStmt(Name("a"),
                         <<AssignStmt("t", CallExpr("rec", <<Minus(Name("a"), Num(1))>>))>>, <<>>),
                  ReturnStmt(Name("a"))>>)

RecPrograms == { <<DefRec, AssignStmt("r", CallExpr("rec", <<Num(v)>>))>> : v \in 0..MaxArg }

\* def p(a): x = a, whose body ends without a Return
DefP == FunctionDef("p", <<"a">>, <<AssignStmt("x", Name("a"))>>)

NoReturnPrograms == { <<DefP, AssignStmt("r", CallExpr("p", <<Num(v)>>))>> : v \in 0..MaxArg }

\* def tick(): n = n + 1; return n < k, a loop test that counts its evaluations
DefTick(k) ==
    FunctionDef("tick", <<>>, <<AssignStmt("n", Plus(Name("n"), Num(1))),
                                ReturnStmt(Lt(Name("n"), Num(k)))>>)

\* def tick(): return True
DefTickTrue == FunctionDef("tick", <<>>, <<ReturnStmt(BoolLit(TRUE))>>)

\* m = m + d
AddM(d) == AssignStmt("m", Plus(Name("m"), Num(d)))

\* the statement that ends the iteration: the signal itself, or an If handing it up
Ending(sig) == {sig, IfStmt(BoolLit(TRUE), <<sig>>, <<PassStmt>>)}

\* while tick(): m = m + 1; break; m = m + 10, with a test that is always true
BreakPrograms ==
    { <<AssignStmt("m", Num(0)), DefTickTrue,
        WhileStmt(CallExpr("tick", <<>>), <<AddM(1), s, AddM(10)>>)>> : s \in Ending(BreakStmt) }

\* while tick(): m = m + 1; continue; m = m + 10, with a test true k - 1 times
ContinuePrograms == [k \in 1..MaxTests |->
    { <<AssignStmt("m", Num(0)), AssignStmt("n", Num(0)), DefTick(k),
        WhileStmt(CallExpr("tick", <<>>), <<AddM(1), s, AddM(10)>>)>> : s \in Ending(ContinueStmt) }]

\* while True: break; m = m + 10
BreakFirstPrograms ==
    { <<AssignStmt("m", Num(0)), DefTickTrue, WhileStmt(test, <<BreakStmt, AddM(10)>>)>> :
        test \in {BoolLit(TRUE), CallExpr("tick", <<>>)} }

LoopPrograms ==
    BreakPrograms \cup BreakFirstPrograms \cup UNION { ContinuePrograms[k] : k \in 1..MaxTests }

\* right-hand sides of the augmented assignments, with their values; f() makes
\* a call between the read of x and the write
AugOperands ==
    { [e |-> Num(0), val |-> IntV(0)],
      [e |-> Num(2), val |-> IntV(2)],
      [e |-> Minus(Num(0), Num(1)), val |-> IntV(-1)],
      [e |-> CallExpr("f", <<>>), val |-> IntV(1)] }

\* x = x op e, as the plain assignment the parser builds
PlainAssign(op, e) == AssignStmt("x", BinOp(opTable[op], Name("x"), e))

\* x op= e and x = x op e as the two statements of one program, each started with
\* x = v: at the top level, in functions with x as parameter, and in functions
\* that find x in the outer namespace; first says which of the two runs first
AugProgram(kind, first, op, e, v) ==
    LET aug == AugAssignStmt("x", e, op)
        plain == PlainAssign(op, e)
        params == IF kind = "param" THEN <<"x">> ELSE <<>>
        args == IF kind = "param" THEN <<Num(v)>> ELSE <<>>
        reset == AssignStmt("x", Num(IF kind = "param" THEN 0 ELSE v))
        runAug == IF kind = "top" THEN <<reset, aug, AssignStmt("r", Name("x"))>>
                  ELSE <<reset, AssignStmt("r", CallExpr("aug", args))>>
        runPlain == IF kind = "top" THEN <<reset, plain, AssignStmt("s", Name("x"))>>
                    ELSE <<reset, AssignStmt("s", CallExpr("plain", args))>>
    IN  Prelude \o <<FunctionDef("aug", params, <<aug, ReturnStmt(Name("x"))>>),
                     FunctionDef("plain", params, <<plain, ReturnStmt(Name("x"))>>)>>
                \o (IF first = "aug" THEN runAug \o runPlain ELSE runPlain \o runAug)

AugCases ==
    { [p |-> AugProgram(kind, first, op, o.e, v), op |-> opTable[op], val |-> o.val, v |-> v] :
        kind \in {"top", "param", "outer"}, first \in {"aug", "plain"},
        op \in DOMAIN opTable, o \in AugOperands, v \in 0..MaxArg }

AugPrograms == { c.p : c \in AugCases }

\* def q(a): x = a; return x, called as r = q(v) with x = 0 in the global namespace
ShadowPrograms ==
    { Prelude \o <<FunctionDef("q", <<"a">>, <<AssignStmt("x", Name("a")), ReturnStmt(Name("x"))>>),
                   AssignStmt("r", CallExpr("q", <<Num(v)>>))>> : v \in 1..MaxArg }

\* test expressions with the outcome of `test == True`
TestValues ==
    { [e |-> Num(0), isTrue |-> FALSE],
      [e |-> Num(1), isTrue |-> TRUE],
      [e |-> Num(2), isTrue |-> FALSE],
      [e |-> BoolLit(TRUE), isTrue |-> TRUE],
      [e |-> BoolLit(FALSE), isTrue |-> FALSE] }

\* if tick(): x = 5 else: x = 6, and if e: x = 5 else: x = 6
\* while tick(): x = 7; break, and while e: x = 7; break
\* after x = 0 and def tick(): return e; Expected is the value x ends with
TestCases ==
    LET Tests(t) == { [e |-> CallExpr("tick", <<>>), calls |-> 1], [e |-> t.e, calls |-> 0] }
        Stmts(test) ==
            { [stmt |-> IfStmt(test.e, <<AssignStmt("x", Num(5))>>, <<AssignStmt("x", Num(6))>>),
               then |-> 5, else |-> 6],
              [stmt |-> WhileStmt(test.e, <<AssignStmt("x", Num(7)), BreakStmt>>),
               then |-> 7, else |-> 0] }
        Case(t, test, s) ==
            [p |-> <<AssignStmt("x", Num(0)),
                     FunctionDef("tick", <<>>, <<ReturnStmt(t.e)>>), s.stmt>>,
             Expected |-> IF t.isTrue THEN s.then ELSE s.else,
             calls |-> test.calls]
    IN  UNION { UNION { { Case(t, test, s) : s \in Stmts(test) } : test \in Tests(t) } :
                t \in TestValues }

TestPrograms == { c.p : c \in TestCases }

\* calling a value that is not a function, adding a function to a number
MiscPrograms ==
    { <<AssignStmt("x", Num(1)), AssignStmt("r", CallExpr("x", <<>>))>>,
      <<DefF, AssignStmt("r", Plus(Name("f"), Num(1)))>> }

Programs ==
    BodyPrograms \cup CounterPrograms \cup SeededPrograms \cup ArityPrograms \cup ClosurePrograms
        \cup RecPrograms \cup MiscPrograms \cup NoReturnPrograms \cup LoopPrograms
        \cup AugPrograms \cup ShadowPrograms \cup TestPrograms

-----------------------------------------------------------------------------
(* Specification *)

Init ==
    /\ prog \in Programs
    /\ Namespaces = <<NewNamespace(0)>>
    /\ Closures = <<>>
    /\ CurrentNamespace = 1
    /\ stack = <<[k |-> "Top", i |-> 0]>>
    /\ ctl = DoNext
    /\ last = [top |-> [k |-> "None"], ctl |-> [m |-> "none"]]
    /\ single_input = <<>>
    /\ readMore = FALSE
    /\ parsed = "none"

Next ==
    \/ EvalAssign
    \/ AssignSet
    \/ EvalControlFlow
    \/ EvalFunctionDef
    \/ ContainerEnter
    \/ ContainerNext
    \/ ContainerStmtResult
    \/ ContainerReturnValue
    \/ EvalIf
    \/ IfTest
    \/ IfNext
    \/ IfStmtResult
    \/ EvalWhile
    \/ WhileTest
    \/ WhileNext
    \/ WhileStmtResult
    \/ EvalLiteral
    \/ EvalName
    \/ EvalBinOp
    \/ BinOpLeft
    \/ BinOpRight
    \/ EvalCall
    \/ CallNext
    \/ CallArg
    \/ Unwind
    \/ TopNext
    \/ TopStmtResult

Spec == Init /\ [][Next]_vars

-----------------------------------------------------------------------------
(* The interactive shell *)

\* the lines sys.stdin.readline() hands over
Lines == {"if x:", "y = (", "y = 1"}

\* the ways the parse of the pending input ends for InteractiveShell.loop: the
\* error listener reports unfinished input, it counts errors, the parse
\* succeeds, or a RecognitionException reaches the loop's handler
ParseOutcomes == {"input_unfinished", "errors_encountered", "parsed", "RecognitionException"}

\* InteractiveShell.loop: readMore after a parse
FlagAfter(flag, outcome) ==
    IF outcome = "input_unfinished" THEN TRUE
    ELSE IF outcome = "errors_encountered" THEN FALSE
    ELSE IF outcome = "parsed" THEN FALSE
    ELSE flag

\* InteractiveShell.__init__
ShellInit ==
    /\ single_input = <<>>
    /\ readMore = FALSE
    /\ parsed = "none"
    /\ prog = <<>>
    /\ Namespaces = <<NewNamespace(0)>>
    /\ Closures = <<>>
    /\ CurrentNamespace = 1
    /\ stack = <<[k |-> "Top", i |-> 0]>>
    /\ ctl = [m |-> "halt"]
    /\ last = [top |-> [k |-> "None"], ctl |-> [m |-> "none"]]

\* InteractiveShell.loop, one iteration: read a line, parse the pending input,
\* set the continuation flag
loop ==
    \E line \in Lines, outcome \in ParseOutcomes :
        /\ readMore => Len(single_input) < MaxPending
        /\ single_input' = IF readMore THEN Append(single_input, line) ELSE <<line>>
        /\ readMore' = FlagAfter(readMore, outcome)
        /\ parsed' = outcome
        /\ UNCHANGED <<prog, Namespaces, Closures, CurrentNamespace, stack, ctl, last>>

ShellNext == loop

ShellSpec == ShellInit /\ [][ShellNext]_vars

-----------------------------------------------------------------------------
(* Properties *)

\* this step is a call returning to its caller
CallReturns == Top.k = "Container" /\ ctl'.m = "val" /\ stack' = Pop(stack)

\* this step is an exception leaving a call
CallRaises == Top.k = "Container" /\ ctl.m = "raise" /\ stack' = Pop(stack)

\* this step is an assignment's write
Writes == Top.k = "Assign" /\ ctl.m = "val"

\* C1: after every call that completes, from any call site, the active-namespace
\* pointer equals what it was immediately before the call
C1_RestoredAfterCall ==
    [][CallReturns => CurrentNamespace' = Top.saved]_vars

\* C2: after every call that exits with an error, the active-namespace pointer
\* equals what it was immediately before the call
C2_RestoredAfterError ==
    [][CallRaises => CurrentNamespace' = Top.saved]_vars

\* C3: a body statement's assignment binds only in the function's own namespace,
\* and a call of another function's closure leaves the bindings of the namespace
\* that was active before the call as they were
C3_CallerBindingsUnchanged ==
    [][/\ (Writes /\ Innermost(stack) # 0) =>
              \A ns \in 1..Len(Namespaces) :
                  ns # Closures[Innermost(stack)].namespace => Namespaces'[ns] = Namespaces[ns]
       /\ (CallReturns /\ Top.saved # Closures[Top.clo].namespace) =>
              Namespaces'[Top.saved].bindings = Top.savedBindings]_vars

\* C4: the namespace of a function defined inside another function's body has
\* that function's namespace as its outer scope
C4_InnerCapturesOuter ==
    \A c \in 1..Len(Closures) :
        Closures[c].definer # 0 =>
            Namespaces[Closures[c].namespace].outer = Closures[Closures[c].definer].namespace

\* C5: a call with an argument count different from the parameter count raises
\* the arity error, leaves every namespace's bindings as they were, and no
\* statement is evaluated while the error propagates
C5_ArityError ==
    [][/\ (ctl.m = "call" /\ ArityMismatch(ctl.clo, ctl.args)) =>
              /\ ctl' = Raise("TypeError", "arity")
              /\ Namespaces' = Namespaces
       /\ ctl.m = "raise" => ctl'.m \in {"raise", "error"}
       /\ ctl.m = "error" => ctl' = ctl]_vars

\* C5 witness: the arity error has been raised by a call that passed at least one
\* argument to a function with at least one parameter
C5_Witness ==
    /\ ctl = Raise("TypeError", "arity")
    /\ Top.k = "Container"
    /\ Len(Top.args) >= 1
    /\ Len(Closures[Top.clo].def.args) >= 1
    /\ Closures[Top.clo].calls >= 2

IsSignal(res, types) == IsMark(res) /\ res.type \in types

\* the latest step was a statement of this kind returning a result to its caller
StmtReturned(kind) == last.top.k = kind /\ last.ctl.m \in {"res", "val", "next"} /\ ctl.m = "res"

\* the latest step was a call returning a value to its caller
CallReturned == last.top.k = "Container" /\ last.ctl.m \in {"res", "val", "next"} /\ ctl.m = "val"

\* C6: what a While statement returns is never a Break or a Continue, nor a list
\* holding one; a loop handed a Break returns its list, a loop handed a Continue
\* evaluates its test again
C6_WhileConsumesBreakContinue ==
    /\ StmtReturned("While") =>
           /\ ~IsSignal(ctl.res, {"Break", "Continue"})
           /\ \A j \in 1..Len(ctl.res.elems) : ~IsSignal(ctl.res.elems[j], {"Break", "Continue"})
    /\ (last.top.k = "While" /\ last.ctl.m = "res" /\ IsSignal(last.ctl.res, {"Break"})) =>
           ctl = RetStmt(ListRes(last.top.result))
    /\ (last.top.k = "While" /\ last.ctl.m = "res" /\ IsSignal(last.ctl.res, {"Continue"})) =>
           ctl = DoExpr(last.top.node.test)

\* C6 witness: a loop inside a function body has returned after an If statement
\* of its body handed it a Break
C6_Witness ==
    /\ last.top.k = "While"
    /\ last.ctl.m = "res"
    /\ IsSignal(last.ctl.res, {"Break"})
    /\ last.top.node.body[last.top.i].k = "If"
    /\ ctl.m = "res"
    /\ Top.k = "Container"

\* def g(a): while c < 2: c = c + 1; return a; s
\* def g(a): while c < 2: c = c + 1; if c < 2: return a else: s; x = 9
\* def g(a): while c < 2: c = c + 1; while True: return a; break
\* each followed by y = 3; return y, and called as r = g(v)
ReturnInLoopPrograms == [v \in 0..MaxArg |->
    { Prelude \o <<DefG(w), AssignStmt("r", CallExpr("g", <<Num(v)>>))>> :
        w \in { WhileStmt(Lt(Name("c"), Num(2)), <<IncC, ReturnStmt(Name("a")), s>>)
                    : s \in SimpleStmts }
              \cup
              { WhileStmt(Lt(Name("c"), Num(2)),
                          <<IncC, IfStmt(Lt(Name("c"), Num(2)), <<ReturnStmt(Name("a"))>>, <<s>>),
                            AssignStmt("x", Num(9))>>) : s \in SimpleStmts }
              \cup
              { WhileStmt(Lt(Name("c"), Num(2)),
                          <<IncC, WhileStmt(BoolLit(TRUE), <<ReturnStmt(Name("a")), BreakStmt>>),
                            PassStmt>>) } }]

\* C7: a Return handed to a While (or to an If nested in it) leaves it at once and
\* unchanged; the function evaluates the Return's expression and the call yields
\* that value; so a function returning from inside a loop has run the loop body
\* once up to the Return, and nothing after it
C7_ReturnInLoopEndsCall ==
    /\ [][/\ (Top.k \in {"While", "If"} /\ ctl.m = "res" /\ IsSignal(ctl.res, {"Return"})) =>
                 (stack' = Pop(stack) /\ ctl' = ctl)
          /\ (Top.k = "Container" /\ ctl.m = "res" /\ IsSignal(ctl.res, {"Return"})
                 /\ ctl.res.toEval # NoExpr) =>
                 (ctl' = DoExpr(ctl.res.toEval) /\ Len(stack') = Len(stack))
          /\ (Top.k = "Container" /\ ctl.m = "res" /\ IsSignal(ctl.res, {"Return"})
                 /\ ctl.res.toEval = NoExpr) =>
                 (ctl' = RetVal(NoneV) /\ stack' = Pop(stack))
          /\ (Top.k = "Container" /\ ctl.m = "val") =>
                 (ctl' = ctl /\ stack' = Pop(stack))]_vars
    /\ [](\A v \in 0..MaxArg :
            (ctl.m \in {"halt", "error"} /\ prog \in ReturnInLoopPrograms[v]) =>
                /\ ctl.m = "halt"
                /\ Namespaces[1].bindings["r"] = IntV(v)
                /\ Namespaces[1].bindings["x"] = IntV(0)
                /\ DOMAIN Namespaces[3].bindings = {"a", "c"}
                /\ Namespaces[3].bindings["c"] = IntV(1))

\* C7 witness: a program whose function returns from inside a loop has finished
C7_Witness ==
    /\ ctl.m = "halt"
    /\ \E v \in 1..MaxArg : prog \in ReturnInLoopPrograms[v]

\* C8: there is one namespace per evaluated FunctionDef; a call installs that
\* namespace and binds each parameter to its argument; the k-th call of counter
\* returns k, with n = 0 seeded in the defining namespace or, by a first call, in
\* the function's own namespace; keep's parameter still holds the previous call's
\* argument when the next call starts
C8_OneNamespacePerDefinition ==
    /\ Len(Namespaces) = Len(Closures) + 1
    /\ \A c \in 1..Len(Closures) : Closures[c].namespace = c + 1
    /\ (last.ctl.m = "call" /\ ctl = DoNext) =>
           LET c == last.ctl.clo
           IN  /\ CurrentNamespace = Closures[c].namespace
               /\ \A j \in 1..Len(last.ctl.args) :
                      Namespaces[Closures[c].namespace].bindings[Closures[c].def.args[j]]
                          = last.ctl.args[j]
    /\ (CallReturned /\ prog \in CounterPrograms) =>
           LET c == last.top.clo
           IN  /\ Closures[c].def = DefCounter => ctl.val = IntV(Closures[c].calls)
               /\ Closures[c].def = DefKeep => ctl.val = IntV(Closures[c].calls)
    /\ (CallReturned /\ prog \in SeededPrograms) =>
           /\ ctl.val = IntV(Closures[last.top.clo].calls - 1)
           /\ Namespaces[2].bindings["n"] = ctl.val
           /\ DOMAIN Namespaces[1].bindings \subseteq {"seeded", "r"}
    /\ (ctl.m = "call" /\ Closures[ctl.clo].calls >= 1 /\ prog \in CounterPrograms) =>
           LET c == ctl.clo
               b == Namespaces[Closures[c].namespace].bindings
           IN  /\ Closures[c].def = DefCounter => b["n"] = IntV(Closures[c].calls)
               /\ Closures[c].def = DefKeep => b["a"] = IntV(Closures[c].calls)

\* C8 witness: the last of the successive calls of counter has returned
C8_Witness ==
    /\ CallReturned
    /\ prog \in CounterPrograms
    /\ Closures[last.top.clo].def = DefCounter
    /\ Closures[last.top.clo].calls = NumCalls
    /\ NumCalls >= 2
    /\ ctl = RetVal(IntV(NumCalls))

\* C9: whenever a statement or an expression of a function's body is about to be
\* evaluated, the active namespace is that function's own namespace
C9_BodyRunsInOwnNamespace ==
    (ctl.m \in {"stmt", "expr"} /\ Innermost(stack) # 0) =>
        CurrentNamespace = Closures[Innermost(stack)].namespace

\* C10: an If takes the statements of the selected branch in order; handed a
\* Return, Break or Continue it returns at once, yielding exactly that signal
C10_IfPropagatesSignal ==
    [][/\ (Top.k = "If" /\ ctl.m = "res" /\ IsSignal(ctl.res, {"Return", "Break", "Continue"})) =>
              (stack' = Pop(stack) /\ ctl' = ctl)
       /\ (Top.k = "If" /\ ctl.m = "res" /\ ~IsSignal(ctl.res, {"Return", "Break", "Continue"})) =>
              (ctl' = DoNext /\ Len(stack') = Len(stack) /\ stack'[Len(stack)].i = Top.i)
       /\ (Top.k = "If" /\ ctl.m = "next" /\ Top.i < Len(Top.stmts)) =>
              (ctl' = DoStmt(Top.stmts[Top.i + 1]) /\ stack'[Len(stack)].i = Top.i + 1)
       /\ (Top.k = "If" /\ ctl.m = "val") =>
              (ctl' = DoNext /\ stack'[Len(stack)].i = 0
                 /\ stack'[Len(stack)].stmts \in {Top.node.body, Top.node.orelse})]_vars

\* C10 witness: an If has returned the Break that the first of the two statements
\* of its branch produced
C10_Witness ==
    /\ last.top.k = "If"
    /\ last.ctl.m = "res"
    /\ IsSignal(last.ctl.res, {"Break"})
    /\ last.top.i < Len(last.top.stmts)
    /\ ctl = last.ctl

\* C11: the list an If statement returns holds no Control-Flow Signal
C11_IfResultHoldsNoSignal ==
    (StmtReturned("If") /\ ctl.res.kind = "List") =>
        \A j \in 1..Len(ctl.res.elems) : ~IsMark(ctl.res.elems[j])

Signals == {PassStmt, BreakStmt, ContinueStmt}

\* def g(a): s; y = 3; return y, called as r = g(v), where s is a Pass, Break or
\* Continue, or an If that hands one up or swallows it
DiscardPrograms ==
    { Prelude \o <<DefG(s), AssignStmt("r", CallExpr("g", <<Num(v)>>))>> :
        s \in Signals \cup { IfStmt(Name("a"), <<s1, s2>>, <<s2>>) :
                                s1 \in Signals, s2 \in {PassStmt, AssignStmt("x", Name("a"))} },
        v \in 0..MaxArg }

\* C12: a Break, Continue or Pass handed to the function body changes nothing and
\* the body goes on with its next statement; the call returns what the rest of
\* the body returns
C12_BodyDiscardsSignal ==
    /\ [][/\ (Top.k = "Container" /\ ctl.m = "res"
                 /\ IsSignal(ctl.res, {"Break", "Continue", "Pass"})) =>
                 /\ ctl' = DoNext
                 /\ stack' = stack
                 /\ Namespaces' = Namespaces
                 /\ CurrentNamespace' = CurrentNamespace
          /\ (Top.k = "Container" /\ ctl.m = "next"
                 /\ Top.i < Len(Closures[Top.clo].def.body)) =>
                 /\ ctl' = DoStmt(Closures[Top.clo].def.body[Top.i + 1])
                 /\ stack' = ReplaceTop(stack, [Top EXCEPT !.i = Top.i + 1])]_vars
    /\ []((ctl.m \in {"halt", "error"} /\ prog \in DiscardPrograms) =>
            /\ ctl.m = "halt"
            /\ Namespaces[1].bindings["r"] = IntV(3)
            /\ Namespaces[3].bindings["y"] = IntV(3))

\* C12 witness: the function body has just dropped a Break that an If statement
\* handed up, and goes on
C12_Witness ==
    /\ last.top.k = "Container"
    /\ last.ctl.m = "res"
    /\ IsSignal(last.ctl.res, {"Break"})
    /\ Closures[last.top.clo].def.body[last.top.i].k = "If"
    /\ last.top.i < Len(Closures[last.top.clo].def.body)
    /\ ctl = DoNext

\* r = g(v) with g returning a, returning without an expression, and r = p(v)
\* with p's body ending without a Return; Expected is the value of the call
ReturnPrograms == [v \in 0..MaxArg |->
    { [p |-> Prelude \o <<DefG(ReturnStmt(Name("a"))), AssignStmt("r", CallExpr("g", <<Num(v)>>))>>,
       Expected |-> IntV(v)],
      [p |-> Prelude \o <<DefG(ReturnStmt(NoExpr)), AssignStmt("r", CallExpr("g", <<Num(v)>>))>>,
       Expected |-> NoneV],
      [p |-> <<DefP, AssignStmt("r", CallExpr("p", <<Num(v)>>))>>,
       Expected |-> NoneV] }]

\* C13: the body's statements are taken in order; at a Return its expression is
\* evaluated and its value is the call's value; the value is none for a Return
\* without expression and for a body that ends; once the Return's expression is
\* being evaluated, no statement of that body is evaluated
C13_CallValue ==
    /\ [][/\ (Top.k = "Container" /\ ctl.m = "next") =>
                 IF Top.i < Len(Closures[Top.clo].def.body)
                 THEN /\ ctl' = DoStmt(Closures[Top.clo].def.body[Top.i + 1])
                      /\ stack' = ReplaceTop(stack, [Top EXCEPT !.i = Top.i + 1])
                 ELSE /\ ctl' = RetVal(NoneV)
                      /\ stack' = Pop(stack)
          /\ (Top.k = "Container" /\ ctl.m = "res" /\ IsSignal(ctl.res, {"Return"})) =>
                 IF ctl.res.toEval # NoExpr
                 THEN /\ ctl' = DoExpr(ctl.res.toEval)
                      /\ stack' = ReplaceTop(stack, [Top EXCEPT !.phase = "return"])
                 ELSE /\ ctl' = RetVal(NoneV)
                      /\ stack' = Pop(stack)
          /\ (Top.k = "Container" /\ ctl.m = "val") =>
                 /\ ctl' = RetVal(ctl.val)
                 /\ stack' = Pop(stack)]_vars
    /\ [](\A j \in 1..Len(stack) :
            (stack[j].k = "Container" /\ stack[j].phase = "return") =>
                IF j = Len(stack) THEN ctl.m \in {"expr", "val", "raise"}
                ELSE stack[j + 1].k \in {"BinOp", "Call", "Container"})
    /\ [](\A v \in 0..MaxArg : \A rp \in ReturnPrograms[v] :
            (ctl.m \in {"halt", "error"} /\ prog = rp.p) =>
                /\ ctl.m = "halt"
                /\ Namespaces[1].bindings["r"] = rp.Expected
                /\ \A ns \in 1..Len(Namespaces) : "y" \notin DOMAIN Namespaces[ns].bindings)

\* C13 witness: a call whose body ended without a Return has yielded none, and
\* the program has finished
C13_Witness ==
    /\ ctl.m = "halt"
    /\ prog \in NoReturnPrograms
    /\ Namespaces[1].bindings["r"] = NoneV
    /\ "x" \in DOMAIN Namespaces[2].bindings

\* the test of the program's loop has been evaluated n times and m holds v
Ticked(n, v) ==
    /\ Closures[1].calls = n
    /\ Namespaces[1].bindings["m"] = IntV(v)

\* C14: a Break ends the loop at once, with neither the rest of the body nor the
\* test evaluated again; a Continue leaves the rest of the body out and the test
\* is evaluated again before any further iteration; a loop with an always true
\* test and a body starting with Break evaluates the test once, runs the body
\* once, ends, and evaluates to an empty result
C14_BreakEndsContinueRetests ==
    /\ [][/\ (Top.k = "While" /\ ctl.m = "res" /\ IsSignal(ctl.res, {"Break"})) =>
                 /\ stack' = Pop(stack)
                 /\ ctl' = RetStmt(ListRes(Top.result))
                 /\ UNCHANGED <<Namespaces, Closures, CurrentNamespace>>
          /\ (Top.k = "While" /\ ctl.m = "res" /\ IsSignal(ctl.res, {"Continue"})) =>
                 /\ stack' = ReplaceTop(stack, [Top EXCEPT !.phase = "test"])
                 /\ ctl' = DoExpr(Top.node.test)
                 /\ UNCHANGED <<Namespaces, Closures, CurrentNamespace>>
          /\ (Top.k = "While" /\ Top.phase = "test") => ctl.m \in {"expr", "val", "raise"}
          /\ (Top.k = "While" /\ Top.phase = "test" /\ ctl.m = "val" /\ ~EqTrue(ctl.val)) =>
                 /\ stack' = Pop(stack)
                 /\ ctl' = RetStmt(ListRes(Top.result))]_vars
    /\ []((ctl.m \in {"halt", "error"} /\ prog \in LoopPrograms) => ctl.m = "halt")
    /\ []((ctl.m = "halt" /\ prog \in BreakPrograms) => Ticked(1, 1))
    /\ []((ctl.m = "halt" /\ prog \in BreakFirstPrograms) =>
            /\ Closures[1].calls <= 1
            /\ Namespaces[1].bindings["m"] = IntV(0))
    /\ [](\A k \in 1..MaxTests :
            (ctl.m = "halt" /\ prog \in ContinuePrograms[k]) => Ticked(k, k - 1))
    /\ []((StmtReturned("While") /\ prog \in BreakFirstPrograms) =>
            /\ ctl.res = ListRes(<<>>)
            /\ last.top.i = 1
            /\ prog[3].test.k = "Call" => Closures[1].calls = 1)

\* C14 witness: the loop `while tick(): break; m = m + 10` has just ended on its
\* Break, after one evaluation of its test
C14_Witness ==
    /\ StmtReturned("While")
    /\ prog \in BreakFirstPrograms
    /\ prog[3].test.k = "Call"
    /\ IsSignal(last.ctl.res, {"Break"})
    /\ Closures[1].calls = 1

\* C14 witness: a loop whose body continues has finished after three tests
C14_ContinueWitness ==
    /\ ctl.m = "halt"
    /\ prog \in ContinuePrograms[3]
    /\ Ticked(3, 2)

\* C15: for each of the ten operators `x op= e` is the statement `x = x op e`;
\* run one after the other from x = v, both read x through the active namespace,
\* evaluate x before e, write the result to the namespace then active, and leave
\* the same value and the same bindings behind, or raise the same error
C15_AugAssignIsPlainAssign ==
    /\ \A op \in DOMAIN opTable : \A o \in AugOperands :
           AugAssignStmt("x", o.e, op) = PlainAssign(op, o.e)
    /\ (ctl.m \in {"halt", "error"} /\ Len(prog) = 11) =>
           \A c \in AugCases :
               prog = c.p =>
                   IF ArithError(c.op, IntV(c.v), c.val) # "none"
                   THEN /\ ctl.m = "error"
                        /\ ctl.err = ArithError(c.op, IntV(c.v), c.val)
                        /\ {"r", "s"} \cap DOMAIN Namespaces[1].bindings = {}
                   ELSE /\ ctl.m = "halt"
                        /\ Namespaces[1].bindings["r"] = Arith(c.op, IntV(c.v), c.val)
                        /\ Namespaces[1].bindings["s"] = Arith(c.op, IntV(c.v), c.val)
                        /\ Namespaces[3].bindings = Namespaces[4].bindings

\* C15 witness: x >>= f() and x = x >> f() in functions with parameter x = 2 have
\* both run and left 1
C15_Witness ==
    /\ ctl.m = "halt"
    /\ prog = AugProgram("param", "aug", ">>=", CallExpr("f", <<>>), 2)
    /\ Namespaces[1].bindings["r"] = IntV(1)
    /\ Namespaces[1].bindings["s"] = IntV(1)

\* C16: evaluating a FunctionDef adds one namespace whose outer scope is the
\* namespace active at that moment, binds the new callable under the function's
\* name in that active namespace, yields no signal, and changes nothing else:
\* the pointer, the stack, the other bindings and the other callables stay as
\* they are, and no statement of the body is started
C16_FunctionDefEffect ==
    [][(ctl.m = "stmt" /\ ctl.node.k = "FunctionDef") =>
          LET new == Len(Namespaces) + 1
              c == Len(Closures) + 1
              cur == CurrentNamespace
          IN  /\ Len(Namespaces') = new
              /\ Namespaces'[new] = NewNamespace(cur)
              /\ Len(Closures') = c
              /\ Closures'[c].def = ctl.node
              /\ Closures'[c].namespace = new
              /\ Closures'[c].calls = 0
              /\ \A j \in 1..Len(Closures) : Closures'[j] = Closures[j]
              /\ Namespaces'[cur].bindings[ctl.node.name] = FnV(c)
              /\ \A ns \in 1..Len(Namespaces) :
                     /\ Namespaces'[ns].outer = Namespaces[ns].outer
                     /\ DOMAIN Namespaces'[ns].bindings =
                            DOMAIN Namespaces[ns].bindings
                                \cup (IF ns = cur THEN {ctl.node.name} ELSE {})
                     /\ \A n \in DOMAIN Namespaces[ns].bindings :
                            (ns # cur \/ n # ctl.node.name) =>
                                Namespaces'[ns].bindings[n] = Namespaces[ns].bindings[n]
              /\ CurrentNamespace' = cur
              /\ stack' = stack
              /\ ctl' = RetStmt(NoneRes)]_vars

\* C16 witness: a function has just been defined inside a running function body,
\* with that body's namespace active
C16_Witness ==
    /\ last.ctl.m = "stmt"
    /\ last.ctl.node.k = "FunctionDef"
    /\ last.top.k = "Container"
    /\ CurrentNamespace # 1
    /\ Namespaces[Len(Namespaces)] = NewNamespace(CurrentNamespace)
    /\ Namespaces[CurrentNamespace].bindings[last.ctl.node.name] = FnV(Len(Closures))
    /\ ctl = RetStmt(NoneRes)

\* C17: an assignment writes the value under the name in the own bindings of the
\* active namespace and nowhere else: every other namespace, an outer one that
\* binds the same name included, is unchanged, and looking the name up through
\* the active namespace now yields the assigned value
C17_AssignWritesOwnBindings ==
    /\ [][(Top.k = "Assign" /\ ctl.m = "val") =>
             LET cur == CurrentNamespace
             IN  /\ Len(Namespaces') = Len(Namespaces)
                 /\ DOMAIN Namespaces'[cur].bindings =
                        DOMAIN Namespaces[cur].bindings \cup {Top.lValue}
                 /\ Namespaces'[cur].bindings[Top.lValue] = ctl.val
                 /\ Namespaces'[cur].outer = Namespaces[cur].outer
                 /\ \A n \in DOMAIN Namespaces[cur].bindings \ {Top.lValue} :
                        Namespaces'[cur].bindings[n] = Namespaces[cur].bindings[n]
                 /\ \A ns \in 1..Len(Namespaces) :
                        ns # cur => Namespaces'[ns] = Namespaces[ns]
                 /\ Lookup(Namespaces', cur, Top.lValue) = ctl.val
                 /\ CurrentNamespace' = cur]_vars
    /\ []((ctl.m \in {"halt", "error"} /\ prog \in ShadowPrograms) =>
            /\ ctl.m = "halt"
            /\ Namespaces[1].bindings["x"] = IntV(0)
            /\ Namespaces[3].bindings["x"] = Namespaces[3].bindings["a"]
            /\ Namespaces[1].bindings["r"] = Namespaces[3].bindings["a"])

\* C17 witness: an assignment in a function body has just written a name that
\* the outer namespace binds to another value
C17_Witness ==
    /\ last.top.k = "Assign"
    /\ last.ctl.m = "val"
    /\ ctl = RetStmt(NoneRes)
    /\ CurrentNamespace # 1
    /\ Namespaces[CurrentNamespace].outer = 1
    /\ last.top.lValue \in DOMAIN Namespaces[1].bindings
    /\ Namespaces[1].bindings[last.top.lValue] # last.ctl.val
    /\ Namespaces[CurrentNamespace].bindings[last.top.lValue] = last.ctl.val

\* the values that compare equal to boolean true
EqualTrue == {IntV(1), BoolV(TRUE), FloatV(1, 1)}

\* C18: an If evaluates its test once and runs one branch, the body when the
\* test's value equals true (as 1 does) and the orelse otherwise; a While goes on
\* under the same comparison; a test value of 2 selects the orelse and ends a loop
C18_TestComparedWithTrue ==
    /\ [][/\ (Top.k = "If" /\ Top.phase = "test" /\ ctl.m = "val") =>
                 /\ ctl' = DoNext
                 /\ stack' = ReplaceTop(stack,
                        [Top EXCEPT !.phase = "iter",
                                    !.stmts = IF ctl.val \in EqualTrue THEN Top.node.body
                                              ELSE Top.node.orelse])
          /\ (Top.k = "If" /\ ctl.m = "next" /\ Top.i < Len(Top.stmts)) =>
                 ctl' = DoStmt(Top.stmts[Top.i + 1])
          /\ \A j \in 1..Len(stack) :
                 (stack[j].k = "If" /\ stack[j].phase = "iter" /\ j <= Len(stack')) =>
                     /\ stack'[j].k = "If"
                     /\ stack'[j].phase = "iter"
                     /\ stack'[j].stmts = stack[j].stmts
          /\ (Top.k = "While" /\ Top.phase = "test" /\ ctl.m = "val") =>
                 IF ctl.val \in EqualTrue
                 THEN /\ ctl' = DoNext
                      /\ stack' = ReplaceTop(stack, [Top EXCEPT !.phase = "iter", !.i = 0])
                 ELSE /\ ctl' = RetStmt(ListRes(Top.result))
                      /\ stack' = Pop(stack)]_vars
    /\ []((ctl.m \in {"halt", "error"} /\ Len(prog) = 3) =>
            \A c \in TestCases :
                prog = c.p =>
                    /\ ctl.m = "halt"
                    /\ Namespaces[1].bindings["x"] = IntV(c.Expected)
                    /\ Closures[1].calls = c.calls)

\* C18 witness: `while tick(): x = 7; break` with tick() returning 2 has ended
\* after one test without running its body
C18_Witness ==
    /\ ctl.m = "halt"
    /\ prog = <<AssignStmt("x", Num(0)), FunctionDef("tick", <<>>, <<ReturnStmt(Num(2))>>),
                WhileStmt(CallExpr("tick", <<>>), <<AssignStmt("x", Num(7)), BreakStmt>>)>>
    /\ Namespaces[1].bindings["x"] = IntV(0)
    /\ Closures[1].calls = 1

\* C18 witness: `if 1: x = 5 else: x = 6` has left x = 5
C18_IfWitness ==
    /\ ctl.m = "halt"
    /\ prog \in TestPrograms
    /\ prog[3] = IfStmt(Num(1), <<AssignStmt("x", Num(5))>>, <<AssignStmt("x", Num(6))>>)
    /\ Namespaces[1].bindings["x"] = IntV(5)

\* C19: the shell appends the line it reads to the pending input only when the
\* previous parse reported unfinished input; after a parse that reported errors
\* and after a successful parse the flag is clear and the next line replaces
\* the pending input
C19_AppendOnlyAfterUnfinished ==
    /\ [][/\ (/\ single_input # <<>>
              /\ single_input' = Append(single_input, single_input'[Len(single_input')])) =>
                 parsed = "input_unfinished"
          /\ parsed \in {"errors_encountered", "parsed"} =>
                 /\ ~readMore
                 /\ Len(single_input') = 1]_shellVars
    /\ [](parsed \in {"errors_encountered", "parsed"} => ~readMore)

====
